---- MODULE Spec2Model ----
(***************************************************************************)
(* Model of Python/Attack_detecktion.py: a log-tailing intrusion detector. *)
(*                                                                         *)
(* Text is modelled as a sequence of characters.  A character is a one-    *)
(* character string, except for three kinds of token that stand for a      *)
(* fixed multi-character chunk of an ISO-8601 timestamp:                   *)
(*    "D"  = a date "2025-05-14"                                           *)
(*    "T0" = "T00:00:00", "T1" = "T12:00:00", "S1" = " 12:00:00"           *)
(*    "Z"  = the offset "+00:00"                                           *)
(***************************************************************************)
EXTENDS Integers, Sequences, FiniteSets, TLC

VARIABLES
    pIn,        \* the fields a line was written from, and what they denote
    pLine,      \* parse_line: the argument
    pOut,       \* parse_line: the returned value
    pDone,      \* parse_line: has returned
    aRecords,   \* analyze_window: the argument
    aEvents,    \* analyze_window: the returned list
    aDone,      \* analyze_window: has returned
    pc,         \* main: "loop" inside the for loop, "done" after it,
                \* "interrupted", "crashed" (left by an exception), "idle"
    buffer,     \* main: buffer
    start,      \* main: start
    now,        \* the wall-clock time, as time.time() returns it
    checkedAt,  \* the value of time.time() at the last elapsed-time check
    tick,       \* flips at each poll of tail_log that finds no line
    nread,      \* number of lines tail_log has yielded to main
    lastLine,   \* the line of the last iteration
    accepted,   \* every record parse_line returned to main, in order
    marks,      \* len(accepted) at each flush
    batches,    \* the argument of each call of analyze_window by main
    lastFlush,  \* the value of nread at the last flush
    faultLog,   \* what failed during each flush
    lastEvents, \* what analyze_window returned at the last flush
    lastCalls,  \* the calls of collaborators made at the last flush
    exists,     \* the log file exists
    file,       \* the content of the log file
    tpc,        \* tail_log: "check" (about to test os.path.exists), "wait",
                \* "read" (about to call readline), "sleep", "idle"
    attachPos,  \* tail_log: the file position after the seek to the end
    pos,        \* tail_log: the file position
    yielded,    \* the lines tail_log has yielded
    eUser,      \* send_email: SMTP_USER
    ePass,      \* send_email: SMTP_PASS
    eFaults,    \* send_email: the SMTP operations that fail if attempted
    eOut,       \* send_email: the SMTP operations attempted, and whether an
                \* exception reached the caller
    eDone,      \* send_email: has returned
    rExists,    \* the report file exists
    rFile,      \* the rows of the report file
    rCalls      \* the argument and the fault of each call of write_report

tailVars == <<exists, file, tpc, attachPos, pos, yielded>>
emailVars == <<eUser, ePass, eFaults, eOut, eDone>>
reportVars == <<rExists, rFile, rCalls>>

mainVars == <<pc, buffer, start, now, checkedAt, tick, nread, lastLine, accepted, marks, batches,
              lastFlush, faultLog, lastEvents, lastCalls>>
parseVars == <<pIn, pLine, pOut, pDone>>
analyzeVars == <<aRecords, aEvents, aDone>>
vars == <<pIn, pLine, pOut, pDone, aRecords, aEvents, aDone, pc, buffer, start,
          now, checkedAt, tick, nread, lastLine, accepted, marks, batches, lastFlush, faultLog,
          lastEvents, lastCalls, exists, file, tpc, attachPos, pos, yielded,
          eUser, ePass, eFaults, eOut, eDone, rExists, rFile, rCalls>>

----------------------------------------------------------------------------
(* Configuration                                                           *)

ANALYSIS_INTERVAL == 300
CONNECTION_THRESHOLD == 100
VOLUME_THRESHOLD == 100
UNUSUAL_PORTS == (1..1023) \ {22, 80, 443}

----------------------------------------------------------------------------
(* Text helpers: str.strip, str.split(','), int(), fromisoformat,          *)
(* isoformat.                                                              *)

Whitespace == {" ", "\n", "\t"}

RECURSIVE lstrip(_)
lstrip(s) ==
    IF s = <<>> THEN s
    ELSE IF Head(s) \in Whitespace THEN lstrip(Tail(s)) ELSE s

RECURSIVE rstrip(_)
rstrip(s) ==
    IF s = <<>> THEN s
    ELSE IF s[Len(s)] \in Whitespace THEN rstrip(SubSeq(s, 1, Len(s) - 1)) ELSE s

\* str.strip(): removes leading and trailing whitespace
strip(s) == rstrip(lstrip(s))

RECURSIVE split(_)
\* str.split(','): the fields between commas, always at least one field
split(s) ==
    IF \A i \in 1..Len(s) : s[i] # ","
    THEN <<s>>
    ELSE LET i == CHOOSE j \in 1..Len(s) :
                      s[j] = "," /\ \A k \in 1..(j - 1) : s[k] # ","
         IN  <<SubSeq(s, 1, i - 1)>> \o split(SubSeq(s, i + 1, Len(s)))

Digits == {"0", "1", "2", "3", "4", "5", "6", "7", "8", "9"}

DigitVal(c) ==
    CASE c = "0" -> 0 [] c = "1" -> 1 [] c = "2" -> 2 [] c = "3" -> 3
      [] c = "4" -> 4 [] c = "5" -> 5 [] c = "6" -> 6 [] c = "7" -> 7
      [] c = "8" -> 8 [] c = "9" -> 9

RECURSIVE DigitsVal(_, _)
\* value of a digit string in which single underscores may separate digits
DigitsVal(s, acc) ==
    IF s = <<>> THEN acc
    ELSE IF Head(s) = "_" THEN DigitsVal(Tail(s), acc)
    ELSE DigitsVal(Tail(s), 10 * acc + DigitVal(Head(s)))

\* the literal grammar int() accepts after the sign: digits, with single
\* underscores allowed only between two digits
IsDigitString(s) ==
    /\ s # <<>>
    /\ \A i \in 1..Len(s) : s[i] \in Digits \cup {"_"}
    /\ s[1] \in Digits
    /\ s[Len(s)] \in Digits
    /\ \A i \in 1..(Len(s) - 1) : ~(s[i] = "_" /\ s[i + 1] = "_")

\* int(text): [ok |-> FALSE] stands for ValueError
int(text) ==
    LET s    == strip(text)
        neg  == s # <<>> /\ s[1] = "-"
        body == IF s # <<>> /\ s[1] \in {"-", "+"} THEN Tail(s) ELSE s
    IN  IF IsDigitString(body)
        THEN [ok |-> TRUE,
              val |-> IF neg THEN 0 - DigitsVal(body, 0) ELSE DigitsVal(body, 0)]
        ELSE [ok |-> FALSE, val |-> 0]

DateTokens == {"D"}
TimeTokens == {"T0", "T1", "S1"}

\* the time-of-day a time token denotes, named by its canonical "T" form
TimeOf(tok) == IF tok = "S1" THEN "T1" ELSE tok

\* datetime.datetime.fromisoformat(text): [ok |-> FALSE] stands for ValueError
fromisoformat(s) ==
    IF Len(s) = 1 /\ s[1] \in DateTokens
    THEN [ok |-> TRUE, date |-> s[1], time |-> "T0", tz |-> <<>>]
    ELSE IF Len(s) = 2 /\ s[1] \in DateTokens /\ s[2] \in TimeTokens
    THEN [ok |-> TRUE, date |-> s[1], time |-> TimeOf(s[2]), tz |-> <<>>]
    ELSE IF Len(s) = 3 /\ s[1] \in DateTokens /\ s[2] \in TimeTokens /\ s[3] = "Z"
    THEN [ok |-> TRUE, date |-> s[1], time |-> TimeOf(s[2]), tz |-> <<"Z">>]
    ELSE [ok |-> FALSE, date |-> "", time |-> "", tz |-> <<>>]

\* datetime.isoformat(): date, "T" separator and time, offset when aware
isoformat(ts) == <<ts.date, ts.time>> \o ts.tz

----------------------------------------------------------------------------
(* parse_line                                                              *)

None == <<>>

RECURSIVE StripAll(_)
\* [p.strip() for p in parts]
StripAll(parts) ==
    IF parts = <<>> THEN <<>>
    ELSE <<strip(Head(parts))>> \o StripAll(Tail(parts))

\* parse_line without the strip of the fields
parse_line_noStrip(line) ==
    LET parts == split(line)
    IN  IF Len(parts) # 5 THEN None
        ELSE LET ts   == fromisoformat(parts[1])
                 port == int(parts[4])
             IN  IF ~ts.ok THEN None
                 ELSE IF ~port.ok THEN None
                 ELSE <<[date |-> ts.date, time |-> ts.time, tz |-> ts.tz],
                        parts[2], parts[3], port.val, parts[5]>>

\* parse_line taking port 0 when the port field is not an integer
parse_line_portDefault(line) ==
    LET parts == StripAll(split(line))
    IN  IF Len(parts) # 5 THEN None
        ELSE LET ts   == fromisoformat(parts[1])
                 port == int(parts[4])
             IN  IF ~ts.ok THEN None
                 ELSE <<[date |-> ts.date, time |-> ts.time, tz |-> ts.tz],
                        parts[2], parts[3], port.val, parts[5]>>

parse_line(line) ==
    LET parts == StripAll(split(line))
    IN  IF Len(parts) # 5 THEN None
        ELSE LET ts   == fromisoformat(parts[1])
                 port == int(parts[4])
             IN  IF ~ts.ok THEN None
                 ELSE IF ~port.ok THEN None
                 ELSE <<[date |-> ts.date, time |-> ts.time, tz |-> ts.tz],
                        parts[2], parts[3], port.val, parts[5]>>

----------------------------------------------------------------------------
(* analyze_window                                                          *)

\* the text datetime.now(timezone.utc).isoformat() returns at evaluation time
NowIso == <<"NOW">>

RECURSIVE Dedup(_)
\* the distinct elements of s in first-seen order: the key order of a Counter
\* (a dict keeps insertion order)
Dedup(s) ==
    IF s = <<>> THEN <<>>
    ELSE LET Other(x) == x # Head(s)
         IN  <<Head(s)>> \o Dedup(SelectSeq(Tail(s), Other))

\* Counter()[key] after the counting loop over the sequence of keys
CounterOf(keys, key) == Cardinality({i \in 1..Len(keys) : keys[i] = key})

\* port_flags flagging every port from 1 to 1023, well-known ones included
port_flags_allLow(records) ==
    LET IsUnusual(r) == r[4] \in 1..1023
        hits == SelectSeq(records, IsUnusual)
    IN  [i \in 1..Len(hits) |->
            <<hits[i][1], hits[i][2], hits[i][3], hits[i][4], hits[i][5],
              <<"Unusual port">>>>]

\* step 1: the records with an unusual port, in arrival order
port_flags(records) ==
    LET IsUnusual(r) == r[4] \in UNUSUAL_PORTS
        hits == SelectSeq(records, IsUnusual)
    IN  [i \in 1..Len(hits) |->
            <<hits[i][1], hits[i][2], hits[i][3], hits[i][4], hits[i][5],
              <<"Unusual port">>>>]

\* flaggedSrc comparing with >= instead of >
flaggedSrc_ge(records) ==
    LET srcs == [i \in 1..Len(records) |-> records[i][2]]
        keys == Dedup(srcs)
        Over(k) == CounterOf(srcs, k) >= CONNECTION_THRESHOLD
        hits == SelectSeq(keys, Over)
    IN  [i \in 1..Len(hits) |->
            <<hits[i], CounterOf(srcs, hits[i]), <<"High connection count">>>>]

\* step 2, first loop: sources over the connection threshold
flaggedSrc(records) ==
    LET srcs == [i \in 1..Len(records) |-> records[i][2]]
        keys == Dedup(srcs)
        Over(k) == CounterOf(srcs, k) > CONNECTION_THRESHOLD
        hits == SelectSeq(keys, Over)
    IN  [i \in 1..Len(hits) |->
            <<hits[i], CounterOf(srcs, hits[i]), <<"High connection count">>>>]

\* flaggedDst skipping the pairs of a source already over the connection
\* threshold
flaggedDst_unlessSrc(records) ==
    LET srcs == [i \in 1..Len(records) |-> records[i][2]]
        pairs == [i \in 1..Len(records) |-> <<records[i][2], records[i][3]>>]
        keys == Dedup(pairs)
        Over(k) == /\ CounterOf(pairs, k) > VOLUME_THRESHOLD
                   /\ ~(CounterOf(srcs, k[1]) > CONNECTION_THRESHOLD)
        hits == SelectSeq(keys, Over)
    IN  [i \in 1..Len(hits) |->
            <<hits[i][1], CounterOf(pairs, hits[i]),
              <<"High volume to ">> \o hits[i][2]>>]

\* step 2, second loop: (source, destination) pairs over the volume threshold
flaggedDst(records) ==
    LET pairs == [i \in 1..Len(records) |-> <<records[i][2], records[i][3]>>]
        keys == Dedup(pairs)
        Over(k) == CounterOf(pairs, k) > VOLUME_THRESHOLD
        hits == SelectSeq(keys, Over)
    IN  [i \in 1..Len(hits) |->
            <<hits[i][1], CounterOf(pairs, hits[i]),
              <<"High volume to ">> \o hits[i][2]>>]

\* flagged filled by the volume loop before the connection loop
flaggedAll_volumeFirst(records) == flaggedDst(records) \o flaggedSrc(records)

\* step 2: the list "flagged" after both loops
flaggedAll(records) == flaggedSrc(records) \o flaggedDst(records)

\* An event is <<timestamp, src, dst, port, protocol, count, reason>>; the
\* port field is <<p>> for the integer p and <<>> for the empty string.
analyze_window(records) ==
    LET pf == port_flags(records)
        flagged == flaggedAll(records)
    IN  [i \in 1..Len(pf) |->
            <<isoformat(pf[i][1]), pf[i][2], pf[i][3], <<pf[i][4]>>, pf[i][5],
              1, pf[i][6]>>]
        \o
        [i \in 1..Len(flagged) |->
            <<NowIso, flagged[i][1], <<>>, <<>>, <<>>, flagged[i][2],
              flagged[i][3]>>]

----------------------------------------------------------------------------
(* Inputs                                                                  *)

MaxFields == 6
MaxBlocks == 3

RECURSIVE Join(_)
\* ",".join(fields): how a producer writes one log line
Join(fields) ==
    IF fields = <<>> THEN <<>>
    ELSE IF Len(fields) = 1 THEN fields[1]
    ELSE fields[1] \o <<",">> \o Join(Tail(fields))

\* timestamp fields fromisoformat accepts, with the datetime they denote
TsFieldsOk ==
    { <<<<"D", "T1">>, [date |-> "D", time |-> "T1", tz |-> <<>>]>>,
      <<<<" ", "D", " ">>, [date |-> "D", time |-> "T0", tz |-> <<>>]>>,
      <<<<"D", "S1", "Z">>, [date |-> "D", time |-> "T1", tz |-> <<"Z">>]>> }
TsFieldsBad == { <<"x">>, <<>>, <<"T1">> }

AddrFields == { <<"a">>, <<" ", "b", " ">>, <<>> }

\* port fields int() accepts, with the integer they denote
PortFieldsOk ==
    { <<<<"2", "3">>, 23>>, <<<<" ", "8", "0">>, 80>>, <<<<"-", "1">>, 0 - 1>>,
      <<<<"+", "7">>, 7>>, <<<<"1", "_", "0", "2", "4">>, 1024>> }
PortFieldsBad == { <<"x">>, <<>>, <<"1", "_">>, <<"2", " ", "3">>, <<"2", "3", "x">> }

ProtoFields == { <<"t">>, <<" ", "u">> }

NoDatetime == [date |-> "", time |-> "", tz |-> <<>>]

\* lines of five fields: every combination of good and bad fields
FiveFieldInputs ==
    { [fields |-> <<t[1], s, d, q[1], pr>>, tsOk |-> TRUE, ts |-> t[2],
       portOk |-> TRUE, port |-> q[2]] :
          t \in TsFieldsOk, s \in AddrFields, d \in AddrFields,
          q \in PortFieldsOk, pr \in ProtoFields }
    \cup
    { [fields |-> <<t, s, <<"c">>, q[1], <<"t">>>>, tsOk |-> FALSE, ts |-> NoDatetime,
       portOk |-> TRUE, port |-> q[2]] :
          t \in TsFieldsBad, s \in AddrFields, q \in PortFieldsOk }
    \cup
    { [fields |-> <<t[1], s, <<"c">>, q, <<"t">>>>, tsOk |-> TRUE, ts |-> t[2],
       portOk |-> FALSE, port |-> 0] :
          t \in TsFieldsOk, s \in AddrFields, q \in PortFieldsBad }

\* lines with another number of fields, each field good for some position
OtherFieldInputs ==
    { [fields |-> f, tsOk |-> TRUE, ts |-> NoDatetime, portOk |-> TRUE, port |-> 23] :
          f \in UNION { [1..n -> { <<"D", "T1">>, <<"2", "3">> }] :
                            n \in (0..MaxFields) \ {5} } }

ParseInputs == FiveFieldInputs \cup OtherFieldInputs

\* records of a window
AnalyzeRecords ==
    { <<[date |-> "D", time |-> "T0", tz |-> <<>>], <<"a">>, <<"c">>, 22, <<"t">>>>,
      <<[date |-> "D", time |-> "T1", tz |-> <<>>], <<"a">>, <<"c">>, 23, <<"t">>>>,
      <<[date |-> "D", time |-> "T0", tz |-> <<>>], <<"a">>, <<"d">>, 23, <<"u">>>>,
      <<[date |-> "D", time |-> "T1", tz |-> <<"Z">>], <<"b">>, <<"c">>, 1024, <<"t">>>>,
      <<[date |-> "D", time |-> "T0", tz |-> <<>>], <<"b">>, <<"c">>, 1023, <<"t">>>>,
      <<[date |-> "D", time |-> "T0", tz |-> <<>>], <<"a">>, <<"d">>, 443, <<"t">>>>,
      <<[date |-> "D", time |-> "T1", tz |-> <<>>], <<"b">>, <<"d">>, 0, <<"u">>>>,
      <<[date |-> "D", time |-> "T0", tz |-> <<>>], <<"a">>, <<"c">>, 80, <<"t">>>> }

\* records that also come in runs of the threshold length
BulkRecords ==
    { r \in AnalyzeRecords :
        \/ r[2] = <<"a">> /\ r[3] = <<"c">> /\ r[4] = 22
        \/ r[2] = <<"a">> /\ r[3] = <<"d">> /\ r[4] = 23
        \/ r[2] = <<"b">> /\ r[3] = <<"c">> /\ r[4] = 1024 }

\* runs <<record, length>>: a single record, or the threshold many of one
AnalyzeBlocks ==
    (AnalyzeRecords \X {1}) \cup (BulkRecords \X {CONNECTION_THRESHOLD})

RECURSIVE Expand(_)
\* the window a sequence of runs <<record, length>> stands for
Expand(blocks) ==
    IF blocks = <<>> THEN <<>>
    ELSE [i \in 1..Head(blocks)[2] |-> Head(blocks)[1]] \o Expand(Tail(blocks))

AnalyzeInputs ==
    { Expand(b) : b \in UNION { [1..n -> AnalyzeBlocks] : n \in 0..MaxBlocks } }

----------------------------------------------------------------------------
(* parse_line applied to one line                                          *)

ParseIdle ==
    /\ pIn = [fields |-> <<>>, tsOk |-> FALSE, ts |-> NoDatetime,
              portOk |-> FALSE, port |-> 0]
    /\ pLine = <<>>
    /\ pOut = None
    /\ pDone = TRUE

AnalyzeIdle ==
    /\ aRecords = <<>>
    /\ aEvents = <<>>
    /\ aDone = TRUE

MainIdle ==
    /\ pc = "idle"
    /\ buffer = <<>>
    /\ start = 0
    /\ now = 0
    /\ checkedAt = 0
    /\ tick = FALSE
    /\ nread = 0
    /\ lastLine = <<>>
    /\ accepted = <<>>
    /\ marks = <<>>
    /\ batches = <<>>
    /\ lastFlush = 0
    /\ faultLog = <<>>
    /\ lastEvents = <<>>
    /\ lastCalls = <<>>

TailIdle ==
    /\ exists = TRUE
    /\ file = <<>>
    /\ tpc = "idle"
    /\ attachPos = 0
    /\ pos = 0
    /\ yielded = <<>>

PyNone == [type |-> "NoneType"]
PyStr(chars) == [type |-> "str", val |-> chars]

EmailIdle ==
    /\ eUser = PyNone
    /\ ePass = PyNone
    /\ eFaults = {}
    /\ eOut = [calls |-> <<>>, escaped |-> FALSE]
    /\ eDone = FALSE

ReportIdle ==
    /\ rExists = FALSE
    /\ rFile = <<>>
    /\ rCalls = <<>>

InitParse ==
    /\ pIn \in ParseInputs
    /\ pLine = Join(pIn.fields)
    /\ pOut = None
    /\ pDone = FALSE
    /\ AnalyzeIdle
    /\ MainIdle
    /\ TailIdle
    /\ EmailIdle
    /\ ReportIdle

Parse ==
    /\ ~pDone
    /\ pOut' = parse_line(pLine)
    /\ pDone' = TRUE
    /\ UNCHANGED <<pIn, pLine, analyzeVars, mainVars, tailVars, emailVars, reportVars>>

NextParse == Parse

SpecParse == InitParse /\ [][NextParse]_vars

----------------------------------------------------------------------------
(* analyze_window applied to one window                                    *)

InitAnalyze ==
    /\ aRecords \in AnalyzeInputs
    /\ aEvents = <<>>
    /\ aDone = FALSE
    /\ ParseIdle
    /\ MainIdle
    /\ TailIdle
    /\ EmailIdle
    /\ ReportIdle

Analyze ==
    /\ ~aDone
    /\ aEvents' = analyze_window(aRecords)
    /\ aDone' = TRUE
    /\ UNCHANGED <<aRecords, parseVars, mainVars, tailVars, emailVars, reportVars>>

NextAnalyze == Analyze

SpecAnalyze == InitAnalyze /\ [][NextAnalyze]_vars

----------------------------------------------------------------------------
(* main: the scheduler loop                                                *)

MaxLines == 3

\* lines tail_log yields (already stripped at both ends)
MainLines ==
    { <<"D", "T1", ",", "a", ",", "c", ",", "8", "0", ",", "t">>,
      <<"D", "S1", "Z", ",", " ", "b", " ", ",", "d", ",", " ", "1", ",", "u">>,
      <<"D", "T1", ",", ",", "c", ",", "2", "3", ",", "t">>,
      <<"f", "o", "o", ",", "b", "a", "r">>,
      <<"x", ",", "a", ",", "c", ",", "8", "0", ",", "t">>,
      <<"D", "T1", ",", "a", ",", "c", ",", "x", ",", "t">> }

\* seconds that pass while tail_log waits for the next line
Delays == {1, 299, 300}

\* seconds that pass between the elapsed-time check and the timer reset
FlushDurations == {1}

\* what can fail during a flush: at most one step per flush, and only a step
\* the flush runs (the collaborators are called when there are events)
FaultSets(events) ==
    IF events = <<>>
    THEN {{}, {"analyze"}}
    ELSE {{}, {"analyze"}, {"report"}, {"block"}, {"email"}}

\* the orders in which a set can be iterated
Orders(S) ==
    { o \in [1..Cardinality(S) -> S] : \A x \in S : \E i \in DOMAIN o : o[i] = x }

\* write_report, block_ip and send_email catch and log their own failures:
\* each call returns normally, with its effect done or not
write_report(events, faults) ==
    [name |-> "write_report", arg |-> events, ok |-> "report" \notin faults]

block_ip(ip, faults) ==
    [name |-> "block_ip", arg |-> ip, ok |-> "block" \notin faults]

send_email(subject, body, faults) ==
    [name |-> "send_email", arg |-> <<subject, body>>, ok |-> "email" \notin faults]

\* {e[1] for e in events}
unique_ips(events) == {events[i][2] : i \in 1..Len(events)}

\* the try block calling block_ip for the source of each event
TryBlock_blockPerEvent(records, faults, order) ==
    IF "analyze" \in faults
    THEN [raised |-> TRUE, events |-> <<>>, calls |-> <<>>]
    ELSE LET events == analyze_window(records)
         IN  IF events # <<>>
             THEN [raised |-> FALSE, events |-> events,
                   calls |-> <<write_report(events, faults)>>
                             \o [i \in 1..Len(events) |-> block_ip(events[i][2], faults)]
                             \o <<send_email(Len(order), order, faults)>>]
             ELSE [raised |-> FALSE, events |-> events, calls |-> <<>>]

\* the try block of a flush: analysis, then report, blocks and mail when there
\* are events; order is the iteration order of the set unique_ips
TryBlock(records, faults, order) ==
    IF "analyze" \in faults
    THEN [raised |-> TRUE, events |-> <<>>, calls |-> <<>>]
    ELSE LET events == analyze_window(records)
         IN  IF events # <<>>
             THEN [raised |-> FALSE, events |-> events,
                   calls |-> <<write_report(events, faults)>>
                             \o [i \in 1..Len(order) |-> block_ip(order[i], faults)]
                             \o <<send_email(Len(order), order, faults)>>]
             ELSE [raised |-> FALSE, events |-> events, calls |-> <<>>]

\* an exception leaving the try block while "except Exception" is absent
Escapes_noExcept(raised) == raised

\* except Exception: whatever the try block raised is logged, nothing escapes
Escapes(raised) == FALSE

\* buffer.clear() skipped
clear_skipped(buf) == buf

\* buffer.clear()
clear(buf) == <<>>

\* the elapsed-time check made only for a line that parsed
CheckRuns_onlyValid(rec) == rec # None

\* the elapsed-time check follows the "if rec:" statement, outside it: it runs
\* for every line
CheckRuns(rec) == TRUE

\* analyze_window called with the buffer as it was before the line's record
FlushBatch_beforeAppend(before, after) == before

\* analyze_window(buffer): buffer already holds the record of the line, which
\* was appended before the check
FlushBatch(before, after) == after

\* the read error leaving tail_log, and with it the for loop and main
ReadErrorOutcome_raised == "crashed"

\* tail_log catches the read error, logs it and returns: the for loop ends and
\* main returns
ReadErrorOutcome == "done"

\* parse_line(line) for each line main can read
Parsed == [line \in MainLines |-> parse_line(line)]

InitMain ==
    /\ pc = "loop"
    /\ buffer = <<>>
    /\ start = 0
    /\ now = 0
    /\ checkedAt = 0
    /\ tick = FALSE
    /\ nread = 0
    /\ lastLine = <<>>
    /\ accepted = <<>>
    /\ marks = <<>>
    /\ batches = <<>>
    /\ lastFlush = 0
    /\ faultLog = <<>>
    /\ lastEvents = <<>>
    /\ lastCalls = <<>>
    /\ ParseIdle
    /\ AnalyzeIdle
    /\ TailIdle
    /\ EmailIdle
    /\ ReportIdle

\* one iteration of the for loop: line arrives d seconds after the last step
ReadLine(line, d) ==
    /\ pc = "loop"
    /\ LET rec == Parsed[line]
           buf == IF rec # None THEN Append(buffer, rec) ELSE buffer
           acc == IF rec # None THEN Append(accepted, rec) ELSE accepted
           t == now + d
       IN  /\ nread' = nread + 1
           /\ lastLine' = line
           /\ accepted' = acc
           /\ checkedAt' = t
           /\ IF CheckRuns(rec) /\ t - start >= ANALYSIS_INTERVAL
              THEN \E faults \in FaultSets(analyze_window(FlushBatch(buffer, buf))),
                      d2 \in FlushDurations,
                      order \in Orders(unique_ips(
                                   analyze_window(FlushBatch(buffer, buf)))) :
                       LET out == TryBlock(FlushBatch(buffer, buf), faults, order)
                       IN  /\ batches' = Append(batches, FlushBatch(buffer, buf))
                           /\ marks' = Append(marks, Len(acc))
                           /\ lastFlush' = nread + 1
                           /\ faultLog' = Append(faultLog, faults)
                           /\ lastEvents' = out.events
                           /\ lastCalls' = out.calls
                           /\ IF Escapes(out.raised)
                              THEN /\ pc' = "crashed"
                                   /\ buffer' = buf
                                   /\ now' = t
                                   /\ start' = start
                              ELSE /\ pc' = "loop"
                                   /\ buffer' = clear(buf)
                                   /\ now' = t + d2
                                   /\ start' = t + d2
              ELSE /\ buffer' = buf
                   /\ now' = t
                   /\ UNCHANGED <<pc, start, marks, batches, lastFlush, faultLog,
                                  lastEvents, lastCalls>>
    /\ UNCHANGED <<tick, parseVars, analyzeVars, tailVars, emailVars, reportVars>>

\* reading the log fails inside tail_log
TailEnds ==
    /\ pc = "loop"
    /\ pc' = ReadErrorOutcome
    /\ UNCHANGED <<buffer, start, now, checkedAt, tick, nread, lastLine, accepted,
                   marks, batches, lastFlush, faultLog, lastEvents, lastCalls>>
    /\ UNCHANGED <<parseVars, analyzeVars, tailVars, emailVars, reportVars>>

\* the process is interrupted (KeyboardInterrupt): main is left, the handler
\* at the bottom of the script logs the interruption
Interrupt ==
    /\ pc = "loop"
    /\ pc' = "interrupted"
    /\ UNCHANGED <<buffer, start, now, checkedAt, tick, nread, lastLine, accepted,
                   marks, batches, lastFlush, faultLog, lastEvents, lastCalls>>
    /\ UNCHANGED <<parseVars, analyzeVars, tailVars, emailVars, reportVars>>

Next ==
    \/ \E line \in MainLines, d \in Delays : nread < MaxLines /\ ReadLine(line, d)
    \/ TailEnds
    \/ Interrupt

Spec == InitMain /\ [][Next]_vars

----------------------------------------------------------------------------
(* main while the log is quiet: tail_log polls, the clock advances         *)

MaxLiveLines == 1

\* the clock is followed up to this value; beyond it, it only reads "later"
ClockCap == 302

\* time.sleep(1) when readline returned nothing
PollSleep == 1

\* tail_log finds no new line: it sleeps and tries again, main stays blocked
\* in the for statement
Poll ==
    /\ pc = "loop"
    /\ now' = IF now + PollSleep <= ClockCap THEN now + PollSleep ELSE now
    /\ tick' = ~tick
    /\ UNCHANGED <<pc, buffer, start, checkedAt, nread, lastLine, accepted,
                   marks, batches, lastFlush, faultLog, lastEvents, lastCalls>>
    /\ UNCHANGED <<parseVars, analyzeVars, tailVars, emailVars, reportVars>>

NextLive ==
    \/ Poll
    \/ \E line \in MainLines : nread < MaxLiveLines /\ ReadLine(line, 0)
    \/ TailEnds
    \/ Interrupt

\* tail_log's polling loop keeps running; whether a line is ever written, the
\* read fails or the user interrupts is up to the environment
SpecLive == InitMain /\ [][NextLive]_vars /\ WF_vars(Poll)

----------------------------------------------------------------------------
(* tail_log next to a writer appending to the log                          *)

MaxFile == 5

\* the characters a writer puts into the log
LogChars == {"a", "b", " ", "\n"}

\* what the log holds when tail_log is called
OldContents == { <<>>, <<"b", "\n">>, <<"b">> }

\* f.readline() at position p: the text up to and including the next newline,
\* or up to the end of the file when there is none; empty at the end of file
readline(content, p) ==
    LET ends == {i \in (p + 1)..Len(content) : content[i] = "\n"}
    IN  IF ends = {} THEN SubSeq(content, p + 1, Len(content))
        ELSE SubSeq(content, p + 1, CHOOSE i \in ends : \A j \in ends : i <= j)

InitTail ==
    /\ exists \in BOOLEAN
    /\ file \in (IF exists THEN OldContents ELSE {<<>>})
    /\ tpc = "check"
    /\ attachPos = 0
    /\ pos = 0
    /\ yielded = <<>>
    /\ ParseIdle
    /\ AnalyzeIdle
    /\ MainIdle
    /\ EmailIdle
    /\ ReportIdle

\* the file is missing: warn and sleep 5 seconds
WaitForFile ==
    /\ tpc = "check"
    /\ ~exists
    /\ tpc' = "wait"
    /\ UNCHANGED <<exists, file, attachPos, pos, yielded>>
    /\ UNCHANGED <<parseVars, analyzeVars, mainVars, emailVars, reportVars>>

\* the 5 seconds are over: look again
Recheck ==
    /\ tpc = "wait"
    /\ tpc' = "check"
    /\ UNCHANGED <<exists, file, attachPos, pos, yielded>>
    /\ UNCHANGED <<parseVars, analyzeVars, mainVars, emailVars, reportVars>>

\* open the file and seek to its end
Attach ==
    /\ tpc = "check"
    /\ exists
    /\ tpc' = "read"
    /\ attachPos' = Len(file)
    /\ pos' = Len(file)
    /\ UNCHANGED <<exists, file, yielded>>
    /\ UNCHANGED <<parseVars, analyzeVars, mainVars, emailVars, reportVars>>

\* readline returned text: yield it stripped
YieldLine ==
    /\ tpc = "read"
    /\ readline(file, pos) # <<>>
    /\ yielded' = Append(yielded, strip(readline(file, pos)))
    /\ pos' = pos + Len(readline(file, pos))
    /\ UNCHANGED <<exists, file, tpc, attachPos>>
    /\ UNCHANGED <<parseVars, analyzeVars, mainVars, emailVars, reportVars>>

\* readline returned nothing: sleep a second
NoLine ==
    /\ tpc = "read"
    /\ readline(file, pos) = <<>>
    /\ tpc' = "sleep"
    /\ UNCHANGED <<exists, file, attachPos, pos, yielded>>
    /\ UNCHANGED <<parseVars, analyzeVars, mainVars, emailVars, reportVars>>

\* the sleep is over: call readline again
Wake ==
    /\ tpc = "sleep"
    /\ tpc' = "read"
    /\ UNCHANGED <<exists, file, attachPos, pos, yielded>>
    /\ UNCHANGED <<parseVars, analyzeVars, mainVars, emailVars, reportVars>>

\* the writer creates the log
CreateFile ==
    /\ ~exists
    /\ exists' = TRUE
    /\ UNCHANGED <<file, tpc, attachPos, pos, yielded>>
    /\ UNCHANGED <<parseVars, analyzeVars, mainVars, emailVars, reportVars>>

\* the writer's next write reaches the file: one character of a line
WriteChar(c) ==
    /\ exists
    /\ Len(file) < MaxFile
    /\ file' = Append(file, c)
    /\ UNCHANGED <<exists, tpc, attachPos, pos, yielded>>
    /\ UNCHANGED <<parseVars, analyzeVars, mainVars, emailVars, reportVars>>

NextTail ==
    \/ WaitForFile
    \/ Recheck
    \/ Attach
    \/ YieldLine
    \/ NoLine
    \/ Wake
    \/ CreateFile
    \/ \E c \in LogChars : WriteChar(c)

SpecTail == InitTail /\ [][NextTail]_vars

----------------------------------------------------------------------------
(* send_email                                                              *)

\* the values SMTP_USER and SMTP_PASS can hold: the default '', a value from
\* the environment, or None (as the tests patch them)
CredValues == {PyNone, PyStr(""), PyStr("secret")}

\* Python's truth value of None or a str
Truthy(v) == v.type = "str" /\ v.val # ""

\* the operations on the SMTP session that can raise
SmtpOps == {"SMTP", "starttls", "login", "send_message"}

AuthWanted_either(user, pass) == Truthy(user) \/ Truthy(pass)

\* if SMTP_USER and SMTP_PASS:
AuthWanted(user, pass) == Truthy(user) /\ Truthy(pass)

\* the operations the body of the try block performs when none of them fails
SmtpPlan(user, pass) ==
    <<"SMTP">>
    \o (IF AuthWanted(user, pass) THEN <<"starttls", "login">> ELSE <<>>)
    \o <<"send_message">>

\* the operations attempted: the plan up to and including the first that
\* raises; the exception is caught by "except Exception" and logged
send_email_session(user, pass, faults) ==
    LET plan == SmtpPlan(user, pass)
        failing == {i \in 1..Len(plan) : plan[i] \in faults}
        last == IF failing = {} THEN Len(plan)
                ELSE CHOOSE i \in failing : \A j \in failing : i <= j
    IN  [calls |-> SubSeq(plan, 1, last), escaped |-> FALSE]

InitEmail ==
    /\ eUser \in CredValues
    /\ ePass \in CredValues
    /\ eFaults \in SUBSET SmtpOps
    /\ eOut = [calls |-> <<>>, escaped |-> FALSE]
    /\ eDone = FALSE
    /\ ParseIdle
    /\ AnalyzeIdle
    /\ MainIdle
    /\ TailIdle
    /\ ReportIdle

SendEmail ==
    /\ ~eDone
    /\ eOut' = send_email_session(eUser, ePass, eFaults)
    /\ eDone' = TRUE
    /\ UNCHANGED <<eUser, ePass, eFaults, parseVars, analyzeVars, mainVars,
                   tailVars, reportVars>>

NextEmail == SendEmail

SpecEmail == InitEmail /\ [][NextEmail]_vars

----------------------------------------------------------------------------
(* write_report and the report file                                        *)

MaxCalls == 3

\* the row of column names
HeaderRow ==
    [kind |-> "header",
     cells |-> <<"timestamp", "src_ip", "dst_ip", "port", "protocol", "count",
                 "reason">>]

\* the row csv.writer writes for an event
RowOf(e) == [kind |-> "event", cells |-> e]

\* the event lists main passes to write_report: what analyze_window returns
\* for windows of one or two unusual-port records
ReportBatches ==
    LET recs == {r \in AnalyzeRecords : r[4] = 23}
    IN  {analyze_window(w) : w \in [1..1 -> recs] \cup [1..2 -> recs]}

\* what can go wrong in a call: nothing, open() raises, or a write raises
\* after open() succeeded
ReportFaults == {"none", "open", "write"}

\* the rows the with block writes when nothing fails
ReportRows(new_file, events) ==
    (IF new_file THEN <<HeaderRow>> ELSE <<>>)
    \o [i \in 1..Len(events) |-> RowOf(events[i])]

\* write_report(events) on a report file in state (present, rows); when a write
\* fails, the first k of the rows had reached the file.  The exception is
\* caught and logged.
write_report_file(present, rows, events, fault, k) ==
    LET new_file == ~present
        out == ReportRows(new_file, events)
    IN  IF fault = "open"
        THEN [exists |-> present, rows |-> rows, wrote |-> <<>>]
        ELSE IF fault = "write"
        THEN [exists |-> TRUE, rows |-> rows \o SubSeq(out, 1, k),
              wrote |-> SubSeq(out, 1, k)]
        ELSE [exists |-> TRUE, rows |-> rows \o out, wrote |-> out]

InitReport ==
    /\ rExists = FALSE
    /\ rFile = <<>>
    /\ rCalls = <<>>
    /\ ParseIdle
    /\ AnalyzeIdle
    /\ MainIdle
    /\ TailIdle
    /\ EmailIdle

WriteReport(events, fault, k) ==
    /\ Len(rCalls) < MaxCalls
    /\ fault = "write" => k < Len(ReportRows(~rExists, events))
    /\ fault # "write" => k = 0
    /\ LET out == write_report_file(rExists, rFile, events, fault, k)
       IN  /\ rExists' = out.exists
           /\ rFile' = out.rows
           /\ rCalls' = Append(rCalls, [events |-> events, fault |-> fault,
                                        wrote |-> out.wrote])
    /\ UNCHANGED <<parseVars, analyzeVars, mainVars, tailVars, emailVars>>

NextReport ==
    \E events \in ReportBatches, fault \in ReportFaults, k \in 0..2 :
        WriteReport(events, fault, k)

SpecReport == InitReport /\ [][NextReport]_vars

----------------------------------------------------------------------------
(* Properties of analyze_window                                            *)

RECURSIVE Concat(_)
Concat(seqs) == IF seqs = <<>> THEN <<>> ELSE Head(seqs) \o Concat(Tail(seqs))

\* number of positions of a sequence at which P holds
CountIn(seq, P(_)) == Cardinality({i \in 1..Len(seq) : P(seq[i])})

SourcesOf(records) == {records[i][2] : i \in 1..Len(records)}
PairsOf(records) == {<<records[i][2], records[i][3]>> : i \in 1..Len(records)}

\* C3: a source with k records in the window gets exactly one "High connection
\* count" event, of magnitude k, when k > 100, and none when k <= 100.
C3_HighConnectionCount ==
    aDone =>
        \A s \in SourcesOf(aRecords) \cup {<<"a">>, <<"b">>} :
            LET FromS(r) == r[2] = s
                k == CountIn(aRecords, FromS)
                IsHit(e) == e[2] = s /\ e[7] = <<"High connection count">>
                IsHitK(e) == IsHit(e) /\ e[6] = k
            IN  IF k > 100
                THEN CountIn(aEvents, IsHit) = 1 /\ CountIn(aEvents, IsHitK) = 1
                ELSE CountIn(aEvents, IsHit) = 0

\* a window with exactly 101 records of one source, flagged with magnitude 101,
\* and exactly 100 of another, not flagged
C3_Witness ==
    /\ aDone
    /\ \E s, t \in SourcesOf(aRecords) :
          LET FromS(r) == r[2] = s
              FromT(r) == r[2] = t
              HitS(e) == e[2] = s /\ e[7] = <<"High connection count">> /\ e[6] = 101
              HitT(e) == e[2] = t /\ e[7] = <<"High connection count">>
          IN  /\ CountIn(aRecords, FromS) = 101
              /\ CountIn(aRecords, FromT) = 100
              /\ CountIn(aEvents, HitS) = 1
              /\ CountIn(aEvents, HitT) = 0

\* the "Unusual port" event of a record
UnusualEventOf(r) ==
    <<isoformat(r[1]), r[2], r[3], <<r[4]>>, r[5], 1, <<"Unusual port">>>>

\* C4: every record whose port is in {1..1023} minus {22, 80, 443} gets one
\* "Unusual port" event per occurrence, carrying its own timestamp, source,
\* destination, port and protocol with magnitude 1; records with port 22, 80,
\* 443 or >= 1024 get none.
C4_UnusualPort ==
    aDone =>
        LET Flagged(r) == r[4] \in (1..1023) \ {22, 80, 443}
            IsUnusualEv(e) == e[7] = <<"Unusual port">>
        IN  /\ \A rec \in {aRecords[i] : i \in 1..Len(aRecords)} :
                  LET Same(r) == r = rec
                      ItsEvent(e) == e = UnusualEventOf(rec)
                  IN  Flagged(rec) =>
                          CountIn(aEvents, ItsEvent) = CountIn(aRecords, Same)
            /\ CountIn(aEvents, IsUnusualEv) = CountIn(aRecords, Flagged)

\* a window with a repeated unusual-port record next to records on ports 22,
\* 443 and 1024, with as many "Unusual port" events as flagged records
C4_Witness ==
    /\ aDone
    /\ \E i, j \in 1..Len(aRecords) :
          i # j /\ aRecords[i] = aRecords[j] /\ aRecords[i][4] = 23
    /\ \E i \in 1..Len(aRecords) : aRecords[i][4] \in {22, 443, 1024}
    /\ \E i \in 1..Len(aEvents) : aEvents[i][7] = <<"Unusual port">>

\* C5: a (source, destination) pair with k records in the window gets exactly
\* one "High volume to <destination>" event for that source, of magnitude k
\* and with empty destination, port and protocol, when k > 100, and none when
\* k <= 100; the "High connection count" event of the source is emitted too.
C5_HighVolume ==
    aDone =>
        \A pr \in PairsOf(aRecords) \cup {<<<<"a">>, <<"c">>>>} :
            LET OfPair(r) == r[2] = pr[1] /\ r[3] = pr[2]
                k == CountIn(aRecords, OfPair)
                IsHit(e) == e[2] = pr[1] /\ e[7] = <<"High volume to ">> \o pr[2]
                IsHitK(e) == /\ IsHit(e) /\ e[6] = k
                             /\ e[3] = <<>> /\ e[4] = <<>> /\ e[5] = <<>>
                IsConn(e) == e[2] = pr[1] /\ e[7] = <<"High connection count">>
            IN  IF k > 100
                THEN /\ CountIn(aEvents, IsHit) = 1
                     /\ CountIn(aEvents, IsHitK) = 1
                     /\ CountIn(aEvents, IsConn) = 1
                ELSE CountIn(aEvents, IsHit) = 0

\* a window where one pair has 101 records and is flagged for volume, while
\* another pair has exactly 100 and is not
C5_Witness ==
    /\ aDone
    /\ \E pr, qr \in PairsOf(aRecords) :
          LET OfP(r) == r[2] = pr[1] /\ r[3] = pr[2]
              OfQ(r) == r[2] = qr[1] /\ r[3] = qr[2]
              HitP(e) == /\ e[2] = pr[1] /\ e[6] = 101
                         /\ e[7] = <<"High volume to ">> \o pr[2]
              HitQ(e) == e[2] = qr[1] /\ e[7] = <<"High volume to ">> \o qr[2]
          IN  /\ CountIn(aRecords, OfP) = 101
              /\ CountIn(aRecords, OfQ) = 100
              /\ CountIn(aEvents, HitP) = 1
              /\ CountIn(aEvents, HitQ) = 0

\* the rule class of an event: 1 "Unusual port", 2 "High connection count",
\* 3 "High volume to ..."
ClassOf(e) ==
    IF e[7] = <<"Unusual port">> THEN 1
    ELSE IF e[7] = <<"High connection count">> THEN 2
    ELSE 3

\* C13: in the returned list no event of a later rule class precedes one of an
\* earlier class ("Unusual port", then "High connection count", then "High
\* volume to ..."), and the "Unusual port" events are those of the flagged
\* records in the arrival order of the records.
C13_OrderedByRuleClass ==
    aDone =>
        LET IsUnusual(r) == r[4] \in UNUSUAL_PORTS
            hits == SelectSeq(aRecords, IsUnusual)
            IsClass1(e) == ClassOf(e) = 1
        IN  /\ \A i \in 1..(Len(aEvents) - 1) :
                  ClassOf(aEvents[i]) <= ClassOf(aEvents[i + 1])
            /\ SelectSeq(aEvents, IsClass1)
                  = [i \in 1..Len(hits) |-> UnusualEventOf(hits[i])]

\* a window whose events are of all three classes, with two different
\* "Unusual port" events
C13_Witness ==
    /\ aDone
    /\ Len(aEvents) >= 4
    /\ aEvents[1] # aEvents[2]
    /\ ClassOf(aEvents[2]) = 1
    /\ \E i \in 1..Len(aEvents) : ClassOf(aEvents[i]) = 2
    /\ ClassOf(aEvents[Len(aEvents)]) = 3

\* C17: a record of the window has an "Unusual port" event exactly when its
\* port is below 1024 and is none of 22, 80, 443, whatever integer the port is.
C17_UnusualIffBelow1024 ==
    aDone =>
        \A rec \in {aRecords[i] : i \in 1..Len(aRecords)} :
            (rec[4] < 1024 /\ rec[4] \notin {22, 80, 443})
                <=> (\E i \in 1..Len(aEvents) : aEvents[i] = UnusualEventOf(rec))

\* C18: the number of events is the number of records with an unusual port
\* plus the number of sources with more than 100 records plus the number of
\* (source, destination) pairs with more than 100 records; a window with only
\* normal ports and no count over 100 has no event.
C18_RulesDoNotSuppress ==
    aDone =>
        LET IsUnusual(r) == r[4] \in UNUSUAL_PORTS
            SrcCount(src) == LET FromS(r) == r[2] = src
                             IN  CountIn(aRecords, FromS)
            PairCount(pr) == LET OfPair(r) == r[2] = pr[1] /\ r[3] = pr[2]
                             IN  CountIn(aRecords, OfPair)
            busySrcs == {src \in SourcesOf(aRecords) : SrcCount(src) > 100}
            busyPairs == {pr \in PairsOf(aRecords) : PairCount(pr) > 100}
        IN  Len(aEvents) = CountIn(aRecords, IsUnusual)
                             + Cardinality(busySrcs) + Cardinality(busyPairs)

\* a window with unusual-port records whose source and (source, destination)
\* pair are both over 100: every rule fired, and there are more events than
\* any one rule gave
C18_Witness ==
    /\ aDone
    /\ Len(aRecords) > 100
    /\ Len(aEvents) >= 102
    /\ ClassOf(aEvents[1]) = 1
    /\ ClassOf(aEvents[Len(aEvents) - 1]) = 2
    /\ ClassOf(aEvents[Len(aEvents)]) = 3
    /\ aEvents[Len(aEvents)][2] = aEvents[1][2]

----------------------------------------------------------------------------
(* Properties of main                                                      *)

\* len(accepted) at the flush before flush n (0 before the first)
MarkBefore(n) == IF n = 1 THEN 0 ELSE marks[n - 1]
LastMark == IF marks = <<>> THEN 0 ELSE marks[Len(marks)]

\* the records accepted after the last flush
SinceLastFlush == SubSeq(accepted, LastMark + 1, Len(accepted))

\* C1: the batch analyze_window gets at a flush is exactly the valid records
\* read since the previous flush, the buffer is empty after every flush, and
\* the events of a window are those of its own records only.
C1_NoRecordInTwoWindows ==
    pc \in {"loop", "done", "interrupted", "crashed"} =>
        /\ Len(batches) = Len(marks)
        /\ \A n \in 1..Len(batches) :
              batches[n] = SubSeq(accepted, MarkBefore(n) + 1, marks[n])
        /\ buffer = SinceLastFlush
        /\ (nread > 0 /\ lastFlush = nread) => buffer = <<>>
        /\ (batches # <<>> /\ "analyze" \notin faultLog[Len(faultLog)]) =>
              lastEvents = analyze_window(SubSeq(accepted,
                                                 MarkBefore(Len(marks)) + 1,
                                                 LastMark))

\* two windows flushed one after the other, the first with two records and
\* the second with one
C1_Witness ==
    /\ Len(batches) = 2
    /\ Len(batches[1]) = 2
    /\ Len(batches[2]) = 1
    /\ buffer = <<>>

\* C2: every accepted record is evaluated exactly once before its window is
\* discarded: while the loop runs the accepted records are those evaluated so
\* far followed by those of the current window, and once the scheduler has
\* stopped, every accepted record has been passed to analyze_window once.
C2_EveryAcceptedEvaluatedOnce ==
    /\ pc = "loop" => accepted = Concat(batches) \o buffer
    /\ pc = "done" => accepted = Concat(batches)

\* C6: every event analyze_window returns has a non-empty source address, and
\* block_ip is never called with an empty address.
C6_SourceNonEmpty ==
    /\ \A i \in 1..Len(lastEvents) : lastEvents[i][2] # <<>>
    /\ \A i \in 1..Len(lastCalls) :
          lastCalls[i].name = "block_ip" => lastCalls[i].arg # <<>>

\* the line has another number of fields than 5, or its timestamp or its port
\* does not parse
Invalid(line) ==
    LET IsComma(c) == c = ","
        parts == split(line)
    IN  \/ CountIn(line, IsComma) + 1 # 5
        \/ ~fromisoformat(strip(parts[1])).ok
        \/ ~int(parts[4]).ok

\* C8: for a line that is invalid, parse_line returns None, and the loop
\* iteration adds nothing to the window (the batch of a flush at that line is
\* the buffer as it was) and the loop goes on.
C8_InvalidLineSkipped ==
    [][ (nread' = nread + 1 /\ Invalid(lastLine')) =>
            /\ parse_line(lastLine') = None
            /\ accepted' = accepted
            /\ IF lastFlush' = nread'
               THEN batches' = Append(batches, buffer) /\ buffer' = <<>>
               ELSE buffer' = buffer /\ batches' = batches
            /\ pc' = "loop" ]_vars

\* an invalid line was read while the window held a record, which it still holds
C8_Witness ==
    /\ pc = "loop"
    /\ nread >= 2
    /\ Invalid(lastLine)
    /\ Len(buffer) >= 1
    /\ lastFlush < nread

\* C9: a failure of the analysis or of a report, block or notification step of
\* a flush stays inside the loop: the flush still empties the window and resets
\* the timer, and the windows after it hold and pass on exactly the records
\* accepted after it.
C9_FaultContained ==
    /\ [][ (lastFlush' = nread' /\ nread' = nread + 1
               /\ faultLog'[Len(faultLog')] # {}) =>
              /\ pc' = "loop"
              /\ buffer' = <<>>
              /\ start' = now'
              /\ start' >= now ]_vars
    /\ []( (\E n \in 1..Len(faultLog) : faultLog[n] # {}) =>
              /\ pc \in {"loop", "done", "interrupted"}
              /\ buffer = SinceLastFlush
              /\ \A n \in 1..Len(batches) :
                    batches[n] = SubSeq(accepted, MarkBefore(n) + 1, marks[n]) )

\* a flush whose analysis failed, followed by a flush of a later window whose
\* events were dispatched
C9_Witness ==
    /\ Len(faultLog) = 2
    /\ faultLog[1] = {"analyze"}
    /\ faultLog[2] = {}
    /\ batches[2] # <<>>
    /\ lastEvents # <<>>
    /\ lastCalls # <<>>
    /\ pc = "loop"

\* C11: a read error inside tail_log ends the loop normally (main returns, no
\* exception), and the loop is left in no other way than that or an external
\* interrupt: never by a step that processes a line.
C11_LoopEndsOnlyByExhaustionOrInterrupt ==
    /\ [](pc \in {"loop", "done", "interrupted"})
    /\ [][ (pc = "loop" /\ pc' # "loop") =>
              /\ pc' \in {"done", "interrupted"}
              /\ nread' = nread
              /\ batches' = batches ]_vars

\* the loop has ended by a read error after lines were processed and a window
\* was flushed
C11_Witness ==
    /\ pc = "done"
    /\ nread >= 2
    /\ Len(batches) >= 1

\* C14: at a flush where analyze_window returned events, the calls are
\* write_report once with the whole list, then block_ip once for each distinct
\* source among the events, then send_email once; where it returned none, no
\* call is made; after either, the buffer is empty and start is the current
\* time.
C14_FlushCallsInOrder ==
    /\ (Len(batches) > 0 /\ "analyze" \notin faultLog[Len(faultLog)]) =>
          /\ lastEvents = analyze_window(batches[Len(batches)])
          /\ IF lastEvents = <<>>
             THEN lastCalls = <<>>
             ELSE LET n == Len(lastCalls)
                      ips == unique_ips(lastEvents)
                  IN  /\ n = Cardinality(ips) + 2
                      /\ lastCalls[1].name = "write_report"
                      /\ lastCalls[1].arg = lastEvents
                      /\ \A i \in 2..(n - 1) : lastCalls[i].name = "block_ip"
                      /\ {lastCalls[i].arg : i \in 2..(n - 1)} = ips
                      /\ lastCalls[n].name = "send_email"
    /\ (nread > 0 /\ lastFlush = nread) => (buffer = <<>> /\ start = now)

\* a flush whose three events name two distinct sources: four calls were made
C14_Witness ==
    /\ nread > 0 /\ lastFlush = nread
    /\ Len(lastEvents) = 3
    /\ Cardinality(unique_ips(lastEvents)) = 2
    /\ Len(lastCalls) = 4
    /\ buffer = <<>>

\* C15: whenever the loop is running and the time since start has reached
\* ANALYSIS_INTERVAL, the window is eventually flushed (or the loop has ended).
C15_BoundaryEventuallyFlushes ==
    \A n \in 0..MaxLiveLines :
        (pc = "loop" /\ now - start >= ANALYSIS_INTERVAL /\ Len(batches) = n)
            ~> (Len(batches) > n \/ pc # "loop")

\* C16: for every line read, valid or not, the elapsed time is checked once:
\* the window is flushed at that line exactly when the time of the check minus
\* start is at least ANALYSIS_INTERVAL, and no flush happens at any other
\* step; start never decreases, and the window after a flush starts no earlier
\* than the check that closed the one before.
C16_FlushOnlyAtBoundary ==
    [][ /\ nread' = nread + 1 =>
              /\ (lastFlush' = nread') <=> (checkedAt' - start >= ANALYSIS_INTERVAL)
              /\ (lastFlush' = nread') <=> (Len(batches') = Len(batches) + 1)
              /\ lastFlush' = nread' => start' >= checkedAt'
        /\ nread' = nread => batches' = batches
        /\ start' >= start ]_vars

\* a line that does not parse arrived after the boundary and closed a window
\* holding a record; a second window is open
C16_Witness ==
    /\ pc = "loop"
    /\ nread >= 2
    /\ Invalid(lastLine)
    /\ lastFlush = nread
    /\ Len(batches[Len(batches)]) >= 1
    /\ start >= ANALYSIS_INTERVAL

\* C19: the record of a valid line is in the window before the elapsed-time
\* check of that line: when the line triggers a flush, the window analysed is
\* the buffer with that record at its end, and the next window starts empty;
\* the iteration accepts that one record and nothing else.
C19_RecordAppendedBeforeCheck ==
    [][ (nread' = nread + 1 /\ ~Invalid(lastLine')) =>
            LET rec == Parsed[lastLine']
            IN  /\ rec # None
                /\ accepted' = Append(accepted, rec)
                /\ IF lastFlush' = nread'
                   THEN /\ batches' = Append(batches, Append(buffer, rec))
                        /\ buffer' = <<>>
                   ELSE /\ batches' = batches
                        /\ buffer' = Append(buffer, rec) ]_vars

\* a valid line arrived after the boundary: its record was analysed together
\* with the record the window already held
C19_Witness ==
    /\ nread >= 2
    /\ lastFlush = nread
    /\ ~Invalid(lastLine)
    /\ Len(batches[Len(batches)]) >= 2
    /\ batches[Len(batches)][Len(batches[Len(batches)])] = Parsed[lastLine]
    /\ buffer = <<>>

----------------------------------------------------------------------------
(* Properties of send_email                                                *)

Has(seq, x) == \E i \in 1..Len(seq) : seq[i] = x

\* C12: once the SMTP session is open, send_email attempts starttls exactly
\* when both SMTP_USER and SMTP_PASS are non-empty, and login only after a
\* starttls that succeeded; with either one missing (empty or None) the next
\* operation after opening the session is send_message; whatever fails, no
\* exception reaches the caller.
C12_AuthIffBothCredentials ==
    eDone =>
        LET calls == eOut.calls
            both == Truthy(eUser) /\ Truthy(ePass)
        IN  /\ ~eOut.escaped
            /\ calls # <<>> /\ calls[1] = "SMTP"
            /\ "SMTP" \notin eFaults =>
                  /\ Has(calls, "starttls") <=> both
                  /\ both => calls[2] = "starttls"
                  /\ Has(calls, "login") <=> (both /\ "starttls" \notin eFaults)
                  /\ Has(calls, "login") => calls[3] = "login"
                  /\ ~both => calls = <<"SMTP", "send_message">>
                  /\ Has(calls, "send_message") <=>
                        (both => eFaults \cap {"starttls", "login"} = {})
            /\ "SMTP" \in eFaults => calls = <<"SMTP">>

\* a user is configured but the password is empty, and the message was handed
\* to the server without starttls or login
C12_Witness ==
    /\ eDone
    /\ Truthy(eUser)
    /\ ePass = PyStr("")
    /\ eOut.calls = <<"SMTP", "send_message">>

----------------------------------------------------------------------------
(* Properties of write_report                                              *)

IsEventRow(row) == row.kind = "event"

\* the event rows each call put into the file, in call order
EventRowsWritten ==
    Concat([i \in 1..Len(rCalls) |-> SelectSeq(rCalls[i].wrote, IsEventRow)])

\* C20: starting without a report file, after any sequence of write_report
\* calls a report that holds rows is one header row followed by the event rows
\* the calls wrote, in call order.
C20_OneHeaderThenEvents ==
    rFile # <<>> => rFile = <<HeaderRow>> \o EventRowsWritten

----------------------------------------------------------------------------
(* Properties of parse_line                                                *)

\* the text without its leading and trailing whitespace
Trimmed(f) ==
    LET solid == {i \in 1..Len(f) : f[i] \notin Whitespace}
    IN  IF solid = {} THEN <<>>
        ELSE SubSeq(f, CHOOSE i \in solid : \A j \in solid : i <= j,
                       CHOOSE i \in solid : \A j \in solid : i >= j)

\* C7: a line of exactly 5 comma-separated fields with a well-formed timestamp
\* in field 1 and an integer in field 4 parses to a record whose source,
\* destination and protocol are the trimmed fields 2, 3 and 5 and whose port is
\* the integer value of field 4.
C7_ValidLineParsed ==
    (pDone /\ Len(pIn.fields) = 5 /\ pIn.tsOk /\ pIn.portOk) =>
        /\ pOut # None
        /\ Len(pOut) = 5
        /\ pOut[2] = Trimmed(pIn.fields[2])
        /\ pOut[3] = Trimmed(pIn.fields[3])
        /\ pOut[5] = Trimmed(pIn.fields[5])
        /\ pOut[4] = pIn.port

\* a valid line with padded fields and a signed port was parsed
C7_Witness ==
    /\ pDone
    /\ Len(pIn.fields) = 5
    /\ pIn.tsOk /\ pIn.portOk
    /\ pIn.fields[2] = <<" ", "b", " ">>
    /\ pIn.fields[4] = <<"-", "1">>
    /\ pOut # None
    /\ pOut[2] = <<"b">>
    /\ pOut[4] = 0 - 1

----------------------------------------------------------------------------
(* Properties of tail_log                                                  *)

RECURSIVE LinesOf(_)
\* the complete lines of a text, without their terminators
LinesOf(text) ==
    LET ends == {i \in 1..Len(text) : text[i] = "\n"}
    IN  IF ends = {} THEN <<>>
        ELSE LET e == CHOOSE i \in ends : \A j \in ends : i <= j
             IN  <<SubSeq(text, 1, e - 1)>> \o LinesOf(SubSeq(text, e + 1, Len(text)))

\* the lines appended to the log since tail_log attached
AppendedLines == LinesOf(SubSeq(file, attachPos + 1, Len(file)))

IsPrefix(a, b) == Len(a) <= Len(b) /\ a = SubSeq(b, 1, Len(a))

\* C10: what tail_log has yielded is always the first lines appended since it
\* attached, whole and unmodified but for the terminator and in append order,
\* and all of them once it has read up to the end of the file.
C10_TailYieldsAppendedLines ==
    tpc \in {"read", "sleep"} =>
        /\ IsPrefix(yielded, AppendedLines)
        /\ pos = Len(file) => yielded = AppendedLines

====
